---------------------------- MODULE Spec2Model ----------------------------
(***************************************************************************)
(* A model of americas_immigration: one run of main (fetch the B05006      *)
(* table, compute the regions and shares, write public/data.json), and     *)
(* direct calls of write_data_json.                                        *)
(*                                                                         *)
(* Representation.                                                         *)
(*  - A Python str that is parsed or produced digit by digit (a value of   *)
(*    the response's value row, a number in the JSON text) is a sequence   *)
(*    of one-character strings.                                            *)
(*  - A share is a float with one decimal; it is represented by its number *)
(*    of tenths (22.2 is 222, -12.0 is -120).                              *)
(*  - A dict is a function from its keys (strings) to its values.          *)
(*  - A path is the sequence of its components; an absolute path starts    *)
(*    with the component "/".                                              *)
(*  - Exceptions keep their Python names: HTTPError (the spec's            *)
(*    FetchError), ValueError (ParseError), KeyError (KeyMissing),         *)
(*    ZeroDivisionError (DivideByZero), OSError (IOError).                 *)
(***************************************************************************)
EXTENDS Integers, Sequences, FiniteSets, TLC

VARIABLES
    pc,         \* position of main: start, fetched, printed, computed, done, failed
    response,   \* the HTTP response received by requests.get, or NoResponse
    requests,   \* number of HTTP requests issued
    parsed,     \* whether response.json() was called
    raw,        \* main's raw: the dict returned by fetch_census_data, or NoValue
    data,       \* main's data: the dict returned by compute_regions, or NoValue
    err,        \* the exception that ended the run, or NoError
    stages,     \* the stages entered so far, in order
    path,       \* the output path handed to write_data_json
    dirs,       \* file system: the directories that exist
    files,      \* file system: file path -> content (a JSON text)
    dirs0,      \* the directories as they were when the run started
    files0      \* the files as they were when the run started

vars ==
    <<pc, response, requests, parsed, raw, data, err, stages, path, dirs, files, dirs0, files0>>

NoValue == [none |-> TRUE]
NoResponse == [status |-> 0]
NoError == [type |-> "none"]

-----------------------------------------------------------------------------
(* census.py: the variable codes *)

TOTAL == "B05006_001E"

Variables ==
    << "B05006_001E", "B05006_002E", "B05006_047E", "B05006_079E",
       "B05006_095E", "B05006_110E", "B05006_130E", "B05006_138E",
       "B05006_140E", "B05006_154E", "B05006_160E", "B05006_164E",
       "B05006_176E", "B05006_177E" >>

Range(s) == {s[i] : i \in 1..Len(s)}

VariableSet == Range(Variables)

-----------------------------------------------------------------------------
(* Python's int(str) and str(int) *)

Digits == <<"0", "1", "2", "3", "4", "5", "6", "7", "8", "9">>

IsDigit(c) == \E d \in 1..10 : Digits[d] = c

DigitVal(c) == (CHOOSE d \in 1..10 : Digits[d] = c) - 1

IsSpace(c) == c \in {" ", "\t", "\n"}

\* str.strip(): the string without its leading and trailing whitespace
RECURSIVE LStrip(_)
LStrip(s) == IF s # <<>> /\ IsSpace(Head(s)) THEN LStrip(Tail(s)) ELSE s

RECURSIVE RStrip(_)
RStrip(s) ==
    IF s # <<>> /\ IsSpace(s[Len(s)]) THEN RStrip(SubSeq(s, 1, Len(s) - 1)) ELSE s

Strip(s) == LStrip(RStrip(s))

\* the digits of an integer literal: digits, single underscores between them
WellFormedDigits(s) ==
    /\ s # <<>>
    /\ IsDigit(s[1])
    /\ IsDigit(s[Len(s)])
    /\ \A i \in 1..Len(s) : IsDigit(s[i]) \/ s[i] = "_"
    /\ \A i \in 1..(Len(s) - 1) : ~(s[i] = "_" /\ s[i + 1] = "_")

RECURSIVE DigitsValue(_, _)
DigitsValue(s, acc) ==
    IF s = <<>> THEN acc
    ELSE IF Head(s) = "_" THEN DigitsValue(Tail(s), acc)
    ELSE DigitsValue(Tail(s), acc * 10 + DigitVal(Head(s)))

\* int(s) for a str s: [ok |-> TRUE, val |-> n], or [ok |-> FALSE] for ValueError
ParseInt(s) ==
    LET t == Strip(s)
        signed == t # <<>> /\ Head(t) \in {"+", "-"}
        body == IF signed THEN Tail(t) ELSE t
    IN  IF WellFormedDigits(body)
        THEN [ok |-> TRUE,
              val |-> IF signed /\ Head(t) = "-"
                      THEN 0 - DigitsValue(body, 0)
                      ELSE DigitsValue(body, 0)]
        ELSE [ok |-> FALSE, val |-> 0]

RECURSIVE NatStr(_)
NatStr(n) == IF n < 10 THEN <<Digits[n + 1]>> ELSE NatStr(n \div 10) \o <<Digits[(n % 10) + 1]>>

\* str(n) for an int n
IntStr(n) == IF n < 0 THEN <<"-">> \o NatStr(0 - n) ELSE NatStr(n)

-----------------------------------------------------------------------------
(* Outcomes of a call: a returned value or a raised exception *)

Return(v) == [ok |-> TRUE, val |-> v, err |-> NoError]

Raise(t, d) == [ok |-> FALSE, val |-> NoValue, err |-> [type |-> t, detail |-> d]]

EmptyDict == [k \in {} |-> 0]

\* d[k] = v for a dict d
SetItem(d, k, v) == [x \in (DOMAIN d) \cup {k} |-> IF x = k THEN v ELSE d[x]]

-----------------------------------------------------------------------------
(* census.py: fetch_census_data *)

\* a check of the status that lets a 4xx status pass
raise_for_status_5xx(resp) == resp.status >= 500 /\ resp.status < 600

\* response.raise_for_status(): raises HTTPError for a 4xx or 5xx status
raise_for_status(resp) == resp.status >= 400 /\ resp.status < 600

\* the loop without the test var_name in VARIABLES: every column is parsed
RECURSIVE fetch_loop_unfiltered(_, _, _, _)
fetch_loop_unfiltered(header, values, i, result) ==
    IF i > Len(header) THEN Return(result)
    ELSE LET v == ParseInt(values[i])
         IN  IF v.ok
             THEN fetch_loop_unfiltered(header, values, i + 1,
                                        SetItem(result, header[i], v.val))
             ELSE Raise("ValueError", header[i])

\* the loop over enumerate(header), from column i on
RECURSIVE fetch_loop(_, _, _, _)
fetch_loop(header, values, i, result) ==
    IF i > Len(header) THEN Return(result)
    ELSE IF header[i] \in VariableSet
         THEN LET v == ParseInt(values[i])
              IN  IF v.ok
                  THEN fetch_loop(header, values, i + 1, SetItem(result, header[i], v.val))
                  ELSE Raise("ValueError", header[i])
         ELSE fetch_loop(header, values, i + 1, result)

\* fetch_census_data, given the response requests.get returned
fetch_census_data(resp) ==
    IF raise_for_status(resp) THEN Raise("HTTPError", "status")
    ELSE fetch_loop(resp.rows[1], resp.rows[2], 1, EmptyDict)

-----------------------------------------------------------------------------
(* census.py: compute_regions *)

\* the keys compute_regions reads, in the order it reads them
ReadOrder ==
    << "B05006_001E", "B05006_160E", "B05006_140E", "B05006_154E",
       "B05006_164E", "B05006_177E", "B05006_002E", "B05006_047E",
       "B05006_079E", "B05006_095E", "B05006_110E" >>

Abs(n) == IF n < 0 THEN 0 - n ELSE n

Sign(n) == IF n < 0 THEN 0 - 1 ELSE 1

\* round(num / den, 1) in tenths, den # 0: the nearest tenth, a tie going to
\* the even tenth (Python's round on a value that is exact in binary)
round1(num, den) ==
    LET a == Abs(num)
        d == Abs(den)
        r0 == a % d
        floor10 == (a \div d) * 10 + ((r0 * 10) \div d)
        r1 == (r0 * 10) % d
        up == 2 * r1 > d \/ (2 * r1 = d /\ floor10 % 2 = 1)
    IN  Sign(num) * Sign(den) * (IF up THEN floor10 + 1 ELSE floor10)

\* share with a tie rounded away from zero instead of to the even tenth
share_half_away(value, total) ==
    LET a == Abs(value * 100)
        d == Abs(total)
        floor10 == (a \div d) * 10 + (((a % d) * 10) \div d)
        r1 == ((a % d) * 10) % d
    IN  Sign(value) * Sign(total) * (IF 2 * r1 >= d THEN floor10 + 1 ELSE floor10)

\* the closure share(value), with the total it captures
share(value, total) == round1(value * 100, total)

\* the subtraction clamped at zero
central_america_ex_mexico_clamped(rw) ==
    IF rw["B05006_154E"] < rw["B05006_160E"] THEN 0 ELSE rw["B05006_154E"] - rw["B05006_160E"]

central_america_ex_mexico(rw) == rw["B05006_154E"] - rw["B05006_160E"]

sub_saharan_africa(rw) == rw["B05006_095E"] - rw["B05006_110E"]

mena(rw) == rw["B05006_079E"] + rw["B05006_110E"]

\* Asia with Western Asia left in it
asia_including_western_asia(rw) == rw["B05006_047E"]

asia_ex_western_asia(rw) == rw["B05006_047E"] - rw["B05006_079E"]

Region(name, count, total, americas) ==
    [region |-> name, count |-> count, share |-> share(count, total), americas |-> americas]

\* the list with Europe and Asia (ex Western Asia) in each other's place
regions_swapped(rw) ==
    LET total == rw[TOTAL]
    IN  << Region("Mexico", rw["B05006_160E"], total, TRUE),
           Region("Caribbean", rw["B05006_140E"], total, TRUE),
           Region("Central America (ex Mexico)", central_america_ex_mexico(rw), total, TRUE),
           Region("South America", rw["B05006_164E"], total, TRUE),
           Region("Canada", rw["B05006_177E"], total, TRUE),
           Region("Europe", rw["B05006_002E"], total, FALSE),
           Region("Asia (ex Western Asia)", asia_ex_western_asia(rw), total, FALSE),
           Region("Sub-Saharan Africa", sub_saharan_africa(rw), total, FALSE),
           Region("Middle East / N. Africa", mena(rw), total, FALSE) >>

\* the list literal regions = [...]
regions(rw) ==
    LET total == rw[TOTAL]
    IN  << Region("Mexico", rw["B05006_160E"], total, TRUE),
           Region("Caribbean", rw["B05006_140E"], total, TRUE),
           Region("Central America (ex Mexico)", central_america_ex_mexico(rw), total, TRUE),
           Region("South America", rw["B05006_164E"], total, TRUE),
           Region("Canada", rw["B05006_177E"], total, TRUE),
           Region("Asia (ex Western Asia)", asia_ex_western_asia(rw), total, FALSE),
           Region("Europe", rw["B05006_002E"], total, FALSE),
           Region("Sub-Saharan Africa", sub_saharan_africa(rw), total, FALSE),
           Region("Middle East / N. Africa", mena(rw), total, FALSE) >>

RECURSIVE SumShares(_, _)
SumShares(rs, i) ==
    IF i > Len(rs) THEN 0
    ELSE (IF rs[i].americas THEN rs[i].share ELSE 0) + SumShares(rs, i + 1)

RECURSIVE SumAllShares(_, _)
SumAllShares(rs, i) == IF i > Len(rs) THEN 0 ELSE rs[i].share + SumAllShares(rs, i + 1)

\* the sum without the filter on r["americas"]
americas_total_share_unfiltered(rs) == round1(SumAllShares(rs, 1), 10)

\* round(sum(r["share"] for r in regions if r["americas"]), 1): the shares are
\* tenths, so their sum is a number of tenths, rounded to one decimal again
americas_total_share(rs) == round1(SumShares(rs, 1), 10)

\* the first key of ReadOrder, from position i on, that the dict does not hold
RECURSIVE first_missing(_, _)
first_missing(rw, i) ==
    IF i > Len(ReadOrder) THEN 0
    ELSE IF ReadOrder[i] \in DOMAIN rw THEN first_missing(rw, i + 1) ELSE i

\* the report built from rw.get(key, 0) instead of rw[key]
compute_regions_get(rw) ==
    LET padded == [c \in VariableSet |-> IF c \in DOMAIN rw THEN rw[c] ELSE 0]
    IN  IF padded[TOTAL] = 0 THEN Raise("ZeroDivisionError", "share")
        ELSE Return([source |-> "ACS 2024 1-Year Estimates, Table B05006",
                     source_url |-> "https://data.census.gov/table/ACSDT1Y2024.B05006",
                     total_foreign_born |-> padded[TOTAL],
                     regions |-> regions(padded),
                     americas_total_share |-> americas_total_share(regions(padded))])

\* the report with every share computed against 1 when the total is 0
compute_regions_guarded(rw) ==
    LET m == first_missing(rw, 1)
        safe == IF m = 0 /\ rw[TOTAL] = 0 THEN [rw EXCEPT ![TOTAL] = 1] ELSE rw
    IN  IF m # 0 THEN Raise("KeyError", ReadOrder[m])
        ELSE Return([source |-> "ACS 2024 1-Year Estimates, Table B05006",
                     source_url |-> "https://data.census.gov/table/ACSDT1Y2024.B05006",
                     total_foreign_born |-> rw[TOTAL],
                     regions |-> regions(safe),
                     americas_total_share |-> americas_total_share(regions(safe))])

compute_regions(rw) ==
    LET m == first_missing(rw, 1)
    IN  IF m # 0 THEN Raise("KeyError", ReadOrder[m])
        ELSE IF rw[TOTAL] = 0 THEN Raise("ZeroDivisionError", "share")
        ELSE Return([source |-> "ACS 2024 1-Year Estimates, Table B05006",
                     source_url |-> "https://data.census.gov/table/ACSDT1Y2024.B05006",
                     total_foreign_born |-> rw[TOTAL],
                     regions |-> regions(rw),
                     americas_total_share |-> americas_total_share(regions(rw))])

-----------------------------------------------------------------------------
(* json.dump(data, f, indent=2): the text is a sequence of tokens.          *)
(*   [k |-> "p", v |-> c]    the punctuation c                              *)
(*   [k |-> "nl", v |-> n]   a newline followed by n spaces                 *)
(*   [k |-> "sp", v |-> 1]   the space after a colon                        *)
(*   [k |-> "str", v |-> s]  the string s in double quotes                  *)
(*   [k |-> "num", v |-> cs] a number, cs its characters                    *)
(*   [k |-> "lit", v |-> w]  the word true or false                         *)

Punct(c) == [k |-> "p", v |-> c]

Nl(level) == [k |-> "nl", v |-> 2 * level]

Sp == [k |-> "sp", v |-> 1]

StrTok(s) == [k |-> "str", v |-> s]

NumTok(cs) == [k |-> "num", v |-> cs]

LitTok(b) == [k |-> "lit", v |-> IF b THEN "true" ELSE "false"]

\* the digits of a float without its sign
FloatStr_unsigned(t) ==
    NatStr(Abs(t) \div 10) \o <<".">> \o <<Digits[(Abs(t) % 10) + 1]>>

\* float.__repr__ of a float with one decimal, given in tenths
FloatStr(t) ==
    (IF t < 0 THEN <<"-">> ELSE <<>>)
        \o NatStr(Abs(t) \div 10) \o <<".">> \o <<Digits[(Abs(t) % 10) + 1]>>

\* "key": followed by the tokens of the value
Member(key, valueToks) == <<StrTok(key), Punct(":"), Sp>> \o valueToks

\* one region dict, at nesting level lvl
DumpRegion(r, lvl) ==
    <<Punct("{"), Nl(lvl + 1)>>
        \o Member("region", <<StrTok(r.region)>>) \o <<Punct(","), Nl(lvl + 1)>>
        \o Member("count", <<NumTok(IntStr(r.count))>>) \o <<Punct(","), Nl(lvl + 1)>>
        \o Member("share", <<NumTok(FloatStr(r.share))>>) \o <<Punct(","), Nl(lvl + 1)>>
        \o Member("americas", <<LitTok(r.americas)>>)
        \o <<Nl(lvl), Punct("}")>>

RECURSIVE DumpRegionsFrom(_, _, _)
DumpRegionsFrom(rs, i, lvl) ==
    IF i > Len(rs) THEN <<>>
    ELSE (IF i > 1 THEN <<Punct(",")>> ELSE <<>>)
            \o <<Nl(lvl + 1)>> \o DumpRegion(rs[i], lvl + 1) \o DumpRegionsFrom(rs, i + 1, lvl)

\* the regions list, at nesting level lvl
DumpRegions(rs, lvl) ==
    IF Len(rs) = 0 THEN <<Punct("["), Punct("]")>>
    ELSE <<Punct("[")>> \o DumpRegionsFrom(rs, 1, lvl) \o <<Nl(lvl), Punct("]")>>

\* the JSON text of a report: its keys in the dict's insertion order
Dump(d) ==
    <<Punct("{"), Nl(1)>>
        \o Member("source", <<StrTok(d.source)>>) \o <<Punct(","), Nl(1)>>
        \o Member("source_url", <<StrTok(d.source_url)>>) \o <<Punct(","), Nl(1)>>
        \o Member("total_foreign_born", <<NumTok(IntStr(d.total_foreign_born))>>)
        \o <<Punct(","), Nl(1)>>
        \o Member("regions", DumpRegions(d.regions, 1)) \o <<Punct(","), Nl(1)>>
        \o Member("americas_total_share", <<NumTok(FloatStr(d.americas_total_share))>>)
        \o <<Nl(0), Punct("}")>>

-----------------------------------------------------------------------------
(* json.load: the document a text parses to *)

IsWs(tok) == tok.k \in {"nl", "sp"}

IsPunct(toks, i, c) == i <= Len(toks) /\ toks[i].k = "p" /\ toks[i].v = c

AllDigits(cs) == cs # <<>> /\ \A i \in 1..Len(cs) : IsDigit(cs[i])

\* position of "." in cs, or 0
DotAt(cs) == IF \E i \in 1..Len(cs) : cs[i] = "."
             THEN CHOOSE i \in 1..Len(cs) : cs[i] = "." ELSE 0

\* a JSON number: -?(0|[1-9][0-9]*)(.[0-9]+)?  An integer literal gives an int,
\* a literal with a fraction a float (in tenths; only one-decimal values arise)
ParseNumber(cs) ==
    LET neg == cs # <<>> /\ Head(cs) = "-"
        body == IF neg THEN Tail(cs) ELSE cs
        dot == DotAt(body)
        ip == IF dot = 0 THEN body ELSE SubSeq(body, 1, dot - 1)
        fp == IF dot = 0 THEN <<>> ELSE SubSeq(body, dot + 1, Len(body))
        ipOk == AllDigits(ip) /\ (Len(ip) = 1 \/ ip[1] # "0")
        sgn == IF neg THEN 0 - 1 ELSE 1
    IN  IF ~ipOk THEN [ok |-> FALSE, val |-> 0]
        ELSE IF dot = 0 THEN [ok |-> TRUE, val |-> sgn * DigitsValue(ip, 0)]
        ELSE IF AllDigits(fp) /\ \A i \in 2..Len(fp) : fp[i] = "0"
             THEN [ok |-> TRUE, val |-> sgn * (DigitsValue(ip, 0) * 10 + DigitVal(fp[1]))]
             ELSE [ok |-> FALSE, val |-> 0]

Parsed(v, next) == [ok |-> TRUE, val |-> v, next |-> next]

ParseFail == [ok |-> FALSE, val |-> NoValue, next |-> 0]

RECURSIVE ParseValue(_, _)
RECURSIVE ParseMembers(_, _, _)
RECURSIVE ParseElements(_, _, _)

\* the value that starts at token i (toks holds no whitespace)
ParseValue(toks, i) ==
    IF i > Len(toks) THEN ParseFail
    ELSE IF toks[i].k = "str" THEN Parsed(toks[i].v, i + 1)
    ELSE IF toks[i].k = "lit" THEN Parsed(toks[i].v = "true", i + 1)
    ELSE IF toks[i].k = "num"
         THEN LET n == ParseNumber(toks[i].v)
              IN  IF n.ok THEN Parsed(n.val, i + 1) ELSE ParseFail
    ELSE IF IsPunct(toks, i, "{")
         THEN IF IsPunct(toks, i + 1, "}") THEN Parsed(EmptyDict, i + 2)
              ELSE ParseMembers(toks, i + 1, EmptyDict)
    ELSE IF IsPunct(toks, i, "[")
         THEN IF IsPunct(toks, i + 1, "]") THEN Parsed(<<>>, i + 2)
              ELSE ParseElements(toks, i + 1, <<>>)
    ELSE ParseFail

\* the members of an object from token i on, up to its closing brace
ParseMembers(toks, i, acc) ==
    IF i + 1 <= Len(toks) /\ toks[i].k = "str" /\ IsPunct(toks, i + 1, ":")
    THEN LET v == ParseValue(toks, i + 2)
         IN  IF ~v.ok THEN ParseFail
             ELSE IF IsPunct(toks, v.next, ",")
                  THEN ParseMembers(toks, v.next + 1, SetItem(acc, toks[i].v, v.val))
             ELSE IF IsPunct(toks, v.next, "}")
                  THEN Parsed(SetItem(acc, toks[i].v, v.val), v.next + 1)
             ELSE ParseFail
    ELSE ParseFail

\* the elements of an array from token i on, up to its closing bracket
ParseElements(toks, i, acc) ==
    LET v == ParseValue(toks, i)
    IN  IF ~v.ok THEN ParseFail
        ELSE IF IsPunct(toks, v.next, ",")
             THEN ParseElements(toks, v.next + 1, Append(acc, v.val))
        ELSE IF IsPunct(toks, v.next, "]")
             THEN Parsed(Append(acc, v.val), v.next + 1)
        ELSE ParseFail

NotWs(tok) == ~IsWs(tok)

\* json.load of a text: the document, or JSONDecodeError
Load(text) ==
    LET toks == SelectSeq(text, NotWs)
        v == ParseValue(toks, 1)
    IN  IF v.ok /\ v.next = Len(toks) + 1 THEN Return(v.val)
        ELSE Raise("JSONDecodeError", "text")

-----------------------------------------------------------------------------
(* output.py: write_data_json, on a file system (dirs, files) *)

\* os.path.dirname
dirname(p) == SubSeq(p, 1, Len(p) - 1)

\* a path and its ancestors
Prefixes(p) == {SubSeq(p, 1, n) : n \in 1..Len(p)}

NoFault == [at |-> "none", cut |-> 0]

\* the text a failed write leaves: the file was truncated by open(path, "w")
\* and holds the tokens written before the failure
Partial(text, cut) == SubSeq(text, 1, cut)

FsResult(e, ds, fs) == [err |-> e, dirs |-> ds, files |-> fs]

OSError(d) == [type |-> "OSError", detail |-> d]

\* the file opened with mode "a": the text is added to what the file held
write_data_json_append(d, p, ds, fs, fault) ==
    LET dn == dirname(p)
        made == ds \cup Prefixes(dn)
        old == IF p \in DOMAIN fs THEN fs[p] ELSE <<>>
    IN  IF dn = <<>> THEN FsResult(OSError("FileNotFoundError"), ds, fs)
        ELSE IF Prefixes(dn) \cap DOMAIN fs # {}
             THEN FsResult(OSError("FileExistsError"), ds, fs)
        ELSE IF fault.at = "makedirs" /\ dn \notin ds
             THEN FsResult(OSError("makedirs"), ds, fs)
        ELSE IF p \in made THEN FsResult(OSError("IsADirectoryError"), made, fs)
        ELSE IF fault.at = "open" THEN FsResult(OSError("open"), made, fs)
        ELSE IF fault.at = "write"
             THEN FsResult(OSError("write"), made,
                           SetItem(fs, p, old \o Partial(Dump(d), fault.cut)))
        ELSE FsResult(NoError, made, SetItem(fs, p, old \o Dump(d)))

\* write_data_json(d, p) on the file system (ds, fs); fault names the call the
\* operating system refuses (makedirs, open, write), if any
write_data_json(d, p, ds, fs, fault) ==
    LET dn == dirname(p)
        made == ds \cup Prefixes(dn)
    IN  IF dn = <<>> THEN FsResult(OSError("FileNotFoundError"), ds, fs)
        ELSE IF Prefixes(dn) \cap DOMAIN fs # {}
             THEN FsResult(OSError("FileExistsError"), ds, fs)
        ELSE IF fault.at = "makedirs" /\ dn \notin ds
             THEN FsResult(OSError("makedirs"), ds, fs)
        ELSE IF p \in made THEN FsResult(OSError("IsADirectoryError"), made, fs)
        ELSE IF fault.at = "open" THEN FsResult(OSError("open"), made, fs)
        ELSE IF fault.at = "write"
             THEN FsResult(OSError("write"), made, SetItem(fs, p, Partial(Dump(d), fault.cut)))
        ELSE FsResult(NoError, made, SetItem(fs, p, Dump(d)))

\* the failures of the operating system that a call of write_data_json may meet
Faults(d) ==
    {NoFault, [at |-> "makedirs", cut |-> 0], [at |-> "open", cut |-> 0]}
        \cup {[at |-> "write", cut |-> c] : c \in {0, Len(Dump(d)) \div 2}}

-----------------------------------------------------------------------------
(* The responses of the Census API that the model draws from *)

MaxCount == 1

MaxNonZero == 2

\* the values of the Total code
TotalValues == {0, 1, 3, 16}

NonTotal == VariableSet \ {TOTAL}

\* code -> count, no more than n of the codes other than the total non-zero
Vectors(n) ==
    UNION { { [c \in VariableSet |-> IF c = TOTAL THEN t ELSE IF c \in S THEN g[c] ELSE 0] :
                g \in [S -> 1..MaxCount], t \in TotalValues } :
            S \in {X \in SUBSET NonTotal : Cardinality(X) <= n} }

\* the raw_data fixture of tests/test_census.py
Fixture ==
    [c \in VariableSet |->
        CASE c = "B05006_001E" -> 50234841
          [] c = "B05006_002E" -> 4876543
          [] c = "B05006_047E" -> 14234567
          [] c = "B05006_079E" -> 1234567
          [] c = "B05006_095E" -> 2987654
          [] c = "B05006_110E" -> 654321
          [] c = "B05006_130E" -> 321456
          [] c = "B05006_138E" -> 26639876
          [] c = "B05006_140E" -> 5280123
          [] c = "B05006_154E" -> 5123456
          [] c = "B05006_160E" -> 11143711
          [] c = "B05006_164E" -> 4812345
          [] c = "B05006_176E" -> 780241
          [] c = "B05006_177E" -> 700000]

\* the two-row table of a response: the header (the codes in the order of the
\* request, then the geography column) and the values as strings
Table(vec) ==
    << Variables \o <<"us">>,
       [i \in 1..Len(Variables) |-> IntStr(vec[Variables[i]])] \o << <<"1">> >> >>

\* the table without column j
DropColumn(rows, j) ==
    LET drop(s) == SubSeq(s, 1, j - 1) \o SubSeq(s, j + 1, Len(s))
    IN  <<drop(rows[1]), drop(rows[2])>>

\* the table with the value of column j replaced
ReplaceValue(rows, j, v) == <<rows[1], [rows[2] EXCEPT ![j] = v]>>

\* values that are no plain decimal number
ValueTokens == { <<"x">>, <<>>, <<"1", ".", "5">>, <<" ", "7">>, <<"-", "2">>, <<"1", "_", "0">> }

Tables ==
    {Table(vec) : vec \in Vectors(MaxNonZero) \cup {Fixture}}
        \cup {DropColumn(Table(vec), j) : vec \in Vectors(1), j \in 1..Len(Variables)}
        \cup {ReplaceValue(Table(vec), j, v) :
                vec \in Vectors(0), j \in 1..(Len(Variables) + 1), v \in ValueTokens}

Responses ==
    {[status |-> 200, rows |-> t] : t \in Tables}
        \cup {[status |-> st, rows |-> Table(vec)] : st \in {404, 500}, vec \in Vectors(0)}

-----------------------------------------------------------------------------
(* __main__.py: one run of main *)

\* repo_root/public/data.json
OutputPath == <<"/", "repo", "public", "data.json">>

\* what a previous run left in the output file
StaleText == Dump(compute_regions([c \in VariableSet |-> 1]).val)

NoFiles == [p \in {} |-> <<>>]

Init ==
    /\ pc = "start"
    /\ response = NoResponse
    /\ requests = 0
    /\ parsed = FALSE
    /\ raw = NoValue
    /\ data = NoValue
    /\ err = NoError
    /\ stages = <<>>
    /\ path = OutputPath
    /\ \E public \in BOOLEAN, stale \in BOOLEAN :
        /\ stale => public
        /\ dirs = {<<"/">>, <<"/", "repo">>}
                    \cup (IF public THEN {dirname(OutputPath)} ELSE {})
        /\ files = IF stale THEN SetItem(NoFiles, OutputPath, StaleText) ELSE NoFiles
    /\ dirs0 = dirs
    /\ files0 = files

\* raw = fetch_census_data()
Fetch ==
    /\ pc = "start"
    /\ \E resp \in Responses :
        LET out == fetch_census_data(resp)
        IN  /\ response' = resp
            /\ requests' = requests + 1
            /\ parsed' = ~raise_for_status(resp)
            /\ stages' = Append(stages, "fetch")
            /\ raw' = out.val
            /\ err' = out.err
            /\ pc' = IF out.ok THEN "fetched" ELSE "failed"
    /\ UNCHANGED <<data, path, dirs, files, dirs0, files0>>

\* print(f"  Total foreign-born: {raw['B05006_001E']:,}")
PrintTotal ==
    /\ pc = "fetched"
    /\ IF TOTAL \in DOMAIN raw
       THEN pc' = "printed" /\ err' = err
       ELSE pc' = "failed" /\ err' = [type |-> "KeyError", detail |-> TOTAL]
    /\ UNCHANGED <<response, requests, parsed, raw, data, stages, path, dirs, files, dirs0, files0>>

\* data = compute_regions(raw)
Compute ==
    /\ pc = "printed"
    /\ LET out == compute_regions(raw)
       IN  /\ data' = out.val
           /\ err' = out.err
           /\ pc' = IF out.ok THEN "computed" ELSE "failed"
    /\ stages' = Append(stages, "compute")
    /\ UNCHANGED <<response, requests, parsed, raw, path, dirs, files, dirs0, files0>>

\* write_data_json(data, output_path)
Write ==
    /\ pc = "computed"
    /\ \E fault \in Faults(data) :
        LET out == write_data_json(data, path, dirs, files, fault)
        IN  /\ dirs' = out.dirs
            /\ files' = out.files
            /\ err' = out.err
            /\ pc' = IF out.err = NoError THEN "done" ELSE "failed"
    /\ stages' = Append(stages, "write")
    /\ UNCHANGED <<response, requests, parsed, raw, data, path, dirs0, files0>>

Next == Fetch \/ PrintTotal \/ Compute \/ Write

Spec == Init /\ [][Next]_vars

-----------------------------------------------------------------------------
(* Direct calls of write_data_json, as tests/test_output.py makes them *)

\* SAMPLE_DATA of tests/test_output.py
SAMPLE_DATA ==
    [source |-> "ACS 2024 1-Year Estimates, Table B05006",
     source_url |-> "https://data.census.gov/table/ACSDT1Y2024.B05006",
     total_foreign_born |-> 50234841,
     regions |->
        << [region |-> "Mexico", count |-> 11143711, share |-> 222, americas |-> TRUE],
           [region |-> "Caribbean", count |-> 5280123, share |-> 105, americas |-> TRUE],
           [region |-> "Central America (ex Mexico)", count |-> 4579745, share |-> 91,
            americas |-> TRUE],
           [region |-> "South America", count |-> 4812345, share |-> 96, americas |-> TRUE],
           [region |-> "Canada", count |-> 700000, share |-> 14, americas |-> TRUE],
           [region |-> "Asia (ex Western Asia)", count |-> 13000000, share |-> 259,
            americas |-> FALSE],
           [region |-> "Europe", count |-> 4876543, share |-> 97, americas |-> FALSE],
           [region |-> "Sub-Saharan Africa", count |-> 2333333, share |-> 46,
            americas |-> FALSE],
           [region |-> "Middle East / N. Africa", count |-> 1888888, share |-> 38,
            americas |-> FALSE] >>,
     americas_total_share |-> 528]

\* the reports handed to the Writer
Reports ==
    {compute_regions(vec).val : vec \in {v \in Vectors(1) \cup {Fixture} : v[TOTAL] # 0}}
        \cup {SAMPLE_DATA}

\* the output paths: in tmpdir, nested in tmpdir, and relative ones
TestPaths ==
    { <<"/", "tmp", "data.json">>,
      <<"/", "tmp", "nested", "dir", "data.json">>,
      <<"nested", "dir", "data.json">>,
      <<"data.json">> }

TmpDirs == {<<"/">>, <<"/", "tmp">>}

WriterInit ==
    /\ pc = "w_start"
    /\ response = NoResponse
    /\ requests = 0
    /\ parsed = FALSE
    /\ raw = NoValue
    /\ err = NoError
    /\ stages = <<>>
    /\ data \in Reports
    /\ path \in TestPaths
    /\ \E fsys \in {"fresh", "parents", "stale", "blocked"} :
        /\ fsys = "blocked" => dirname(path) \notin TmpDirs \cup {<<>>}
        /\ dirs = IF fsys \in {"parents", "stale"}
                  THEN TmpDirs \cup Prefixes(dirname(path))
                  ELSE TmpDirs
        /\ files = CASE fsys = "stale" -> SetItem(NoFiles, path, StaleText)
                     [] fsys = "blocked" -> SetItem(NoFiles, dirname(path), StaleText)
                     [] OTHER -> NoFiles
    /\ dirs0 = dirs
    /\ files0 = files

\* write_data_json(SAMPLE_DATA, outpath)
WriterCall ==
    /\ pc = "w_start"
    /\ \E fault \in Faults(data) :
        LET out == write_data_json(data, path, dirs, files, fault)
        IN  /\ dirs' = out.dirs
            /\ files' = out.files
            /\ err' = out.err
            /\ pc' = IF out.err = NoError THEN "w_done" ELSE "w_failed"
    /\ UNCHANGED <<response, requests, parsed, raw, data, stages, path, dirs0, files0>>

WriterNext == WriterCall

WriterSpec == WriterInit /\ [][WriterNext]_vars

-----------------------------------------------------------------------------
(* Properties of compute_regions *)

\* the nine region names of the report, in their order
RegionNames ==
    << "Mexico", "Caribbean", "Central America (ex Mexico)", "South America", "Canada",
       "Asia (ex Western Asia)", "Europe", "Sub-Saharan Africa", "Middle East / N. Africa" >>

\* C1: whenever compute_regions has returned, the regions array has exactly
\* nine entries, named Mexico, Caribbean, Central America (ex Mexico), South
\* America, Canada, Asia (ex Western Asia), Europe, Sub-Saharan Africa, Middle
\* East / N. Africa in this order, and americas is true for exactly the first
\* five of them, whatever the input values.
C1_RegionsOrderAndFlags ==
    data # NoValue =>
        /\ Len(data.regions) = 9
        /\ \A i \in 1..9 :
            /\ data.regions[i].region = RegionNames[i]
            /\ data.regions[i].americas = (i <= 5)

\* compute_regions has returned on an input whose counts are not all alike
C1_Witness ==
    /\ pc = "computed"
    /\ data.regions[6].count # data.regions[7].count
    /\ data.regions[3].count < 0

\* C2: whenever compute_regions has returned, the derived counts are Central
\* America - Mexico, Africa - Northern Africa, Western Asia + Northern Africa
\* and Asia - Western Asia of the raw input; a negative difference is emitted
\* as it is.
C2_DerivedCounts ==
    data # NoValue =>
        /\ data.regions[3].count = raw["B05006_154E"] - raw["B05006_160E"]
        /\ data.regions[8].count = raw["B05006_095E"] - raw["B05006_110E"]
        /\ data.regions[9].count = raw["B05006_079E"] + raw["B05006_110E"]
        /\ data.regions[6].count = raw["B05006_047E"] - raw["B05006_079E"]

\* compute_regions has returned a negative Central America (ex Mexico) count
C2_Witness ==
    /\ data # NoValue
    /\ raw["B05006_154E"] < raw["B05006_160E"]
    /\ data.regions[3].count < 0

\* twice the distance, in thousandths of a percent times the total, between a
\* share s (in tenths of a percent) and count / total * 100
TwiceDistance(s, count, total) == 2 * Abs(s * total - 1000 * count)

\* a total small enough for TwiceDistance to stay within the integers
SmallTotal(total) == total > 0 /\ total <= 1000

\* C3: every region's share is round(count / total * 100, 1) with total the
\* value of B05006_001E in the same raw input: it is the multiple of 0.1
\* nearest to count / total * 100, the even one of the two when both are
\* equally near, for negative counts as well; for the example input Mexico's
\* share is 22.2 and Central America (ex Mexico)'s is -12.0.
C3_ShareRounding ==
    data # NoValue =>
        /\ \A i \in 1..Len(data.regions) :
            LET r == data.regions[i]
            IN  /\ r.share = share(r.count, raw[TOTAL])
                /\ SmallTotal(raw[TOTAL]) =>
                    /\ TwiceDistance(r.share, r.count, raw[TOTAL]) <= raw[TOTAL]
                    /\ TwiceDistance(r.share, r.count, raw[TOTAL]) = raw[TOTAL]
                        => r.share % 2 = 0
        /\ raw = Fixture => data.regions[1].share = 222 /\ data.regions[3].share = 0 - 120

\* a negative count whose share lies exactly between two tenths (-1/16 is -6.25 %)
C3_Witness ==
    /\ data # NoValue
    /\ SmallTotal(raw[TOTAL])
    /\ \E i \in 1..Len(data.regions) :
        /\ data.regions[i].count < 0
        /\ TwiceDistance(data.regions[i].share, data.regions[i].count, raw[TOTAL]) = raw[TOTAL]

\* round(sum of the five Americas raw counts / total * 100, 1), in tenths
SingleRounding(d) ==
    round1((d.regions[1].count + d.regions[2].count + d.regions[3].count
                + d.regions[4].count + d.regions[5].count) * 100,
           d.total_foreign_born)

\* C4: americas_total_share is the sum of the already rounded shares of the
\* five regions flagged americas, rounded to one decimal (a sum of tenths is a
\* number of tenths).
C4_AmericasTotalShare ==
    data # NoValue =>
        data.americas_total_share =
            data.regions[1].share + data.regions[2].share + data.regions[3].share
                + data.regions[4].share + data.regions[5].share

\* C4, the observable double rounding: an input whose americas_total_share
\* differs from the single rounding of the summed raw counts
C4_Witness ==
    /\ data # NoValue
    /\ data.americas_total_share # SingleRounding(data)

-----------------------------------------------------------------------------
(* Properties of the run: missing keys, the fetch, a zero total *)

\* the run has ended
Ended == pc \in {"done", "failed"}

\* no stage after the fetch has touched the output: the Aggregator returned
\* nothing, the Writer was not called and the file system is as it was
NothingWritten ==
    /\ data = NoValue
    /\ "write" \notin Range(stages)
    /\ files = files0
    /\ dirs = dirs0

\* the codes compute_regions reads
ConsumedCodes ==
    { "B05006_001E", "B05006_002E", "B05006_047E", "B05006_079E", "B05006_095E",
      "B05006_110E", "B05006_140E", "B05006_154E", "B05006_160E", "B05006_164E",
      "B05006_177E" }

\* C5 as stated, for every code of VARIABLES: a run whose raw mapping lacks
\* the code fails with KeyError and writes no output file; so no such run
\* completes with the output file written.
C5_EveryVariableRequired ==
    \A c \in VariableSet :
        (raw # NoValue /\ c \notin DOMAIN raw) => ~(pc = "done" /\ path \in DOMAIN files)

\* C5, amended: for every code that compute_regions reads, a raw mapping
\* without it makes compute_regions raise KeyError; the run fails with
\* KeyError (in main's print of the total or in compute_regions) and nothing
\* is written.  The absence of any other code raises nothing.
C5_ConsumedCodeRequired ==
    /\ \A c \in ConsumedCodes :
        (raw # NoValue /\ c \notin DOMAIN raw) =>
            /\ ~compute_regions(raw).ok
            /\ compute_regions(raw).err.type = "KeyError"
            /\ pc \in {"fetched", "printed", "failed"}
            /\ pc = "failed" => err.type = "KeyError"
            /\ NothingWritten
    /\ (raw # NoValue /\ ConsumedCodes \subseteq DOMAIN raw) =>
            compute_regions(raw).err.type # "KeyError"

\* the run has failed in compute_regions on a raw mapping without Northern Africa
C5_Witness ==
    /\ pc = "failed"
    /\ raw # NoValue
    /\ "B05006_110E" \notin DOMAIN raw
    /\ stages = <<"fetch", "compute">>
    /\ err = [type |-> "KeyError", detail |-> "B05006_110E"]

\* the value row has an integer for the column of the code
IntParseable(values, i) == ParseInt(values[i]).ok

\* the columns of a header that hold a required code
RequiredColumns(header) == {i \in 1..Len(header) : header[i] \in VariableSet}

\* C7: for a two-row response with a success status, either every required
\* code's value is an integer and fetch_census_data returns the mapping whose
\* keys are exactly the header entries that are required codes, each with the
\* integer parse of the value in its column, whatever the other columns hold;
\* or some required code's value is not an integer and the fetch fails with
\* ValueError and returns no mapping.
C7_FetchMapping ==
    (response # NoResponse /\ ~(response.status >= 400)) =>
        LET header == response.rows[1]
            values == response.rows[2]
        IN  IF \A i \in RequiredColumns(header) : IntParseable(values, i)
            THEN /\ raw # NoValue
                 /\ DOMAIN raw = {header[i] : i \in RequiredColumns(header)}
                 /\ \A i \in RequiredColumns(header) :
                        raw[header[i]] = ParseInt(values[i]).val
            ELSE /\ raw = NoValue
                 /\ pc = "failed"
                 /\ err.type = "ValueError"

\* a mapping was returned for a response whose geography value is no integer
C7_Witness ==
    /\ pc = "fetched"
    /\ \E i \in 1..Len(response.rows[1]) :
        /\ response.rows[1][i] = "us"
        /\ ~IntParseable(response.rows[2], i)
    /\ DOMAIN raw = VariableSet

\* C8: a run issues exactly one HTTP request; on a 4xx or 5xx status the fetch
\* fails with HTTPError, the body is not parsed, no second request is made and
\* the run neither computes nor writes.
C8_OneRequestNoRetry ==
    /\ requests = (IF pc = "start" THEN 0 ELSE 1)
    /\ (response # NoResponse /\ response.status >= 400) =>
        /\ pc = "failed"
        /\ err.type = "HTTPError"
        /\ ~parsed
        /\ raw = NoValue
        /\ stages = <<"fetch">>
        /\ NothingWritten

\* the run has failed on a 404 response
C8_Witness ==
    /\ pc = "failed"
    /\ response.status = 404
    /\ requests = 1

\* C10: when the raw mapping holds every consumed code and the total is 0,
\* compute_regions raises ZeroDivisionError whatever the other counts are; the
\* run fails with it, no report exists and nothing is written.
C10_ZeroTotal ==
    (raw # NoValue /\ ConsumedCodes \subseteq DOMAIN raw /\ raw[TOTAL] = 0) =>
        /\ ~compute_regions(raw).ok
        /\ compute_regions(raw).err.type = "ZeroDivisionError"
        /\ pc \in {"fetched", "printed", "failed"}
        /\ pc = "failed" => err.type = "ZeroDivisionError"
        /\ NothingWritten

\* the run has failed on a zero total with a non-zero count
C10_Witness ==
    /\ pc = "failed"
    /\ err.type = "ZeroDivisionError"
    /\ raw[TOTAL] = 0
    /\ \E c \in ConsumedCodes : raw[c] > 0

-----------------------------------------------------------------------------
(* Properties of the stages of main and of the Writer *)

AllStages == <<"fetch", "compute", "write">>

\* the stages entered so far are the first ones of fetch, compute, write
StagesInOrder == Len(stages) <= 3 /\ stages = SubSeq(AllStages, 1, Len(stages))

\* the outcome of a completed run: the three stages, and the output file
\* holds the whole JSON text of the report
Completed ==
    /\ stages = AllStages
    /\ path \in DOMAIN files
    /\ files[path] = Dump(data)
    /\ Load(files[path]) = Return(data)

\* text is a beginning of whole, and not all of it
ProperPrefix(text, whole) ==
    Len(text) < Len(whole) /\ text = SubSeq(whole, 1, Len(text))

\* every file but the output file is as it was
OthersUntouched ==
    /\ DOMAIN files \ {path} = DOMAIN files0 \ {path}
    /\ \A q \in DOMAIN files0 \ {path} : files[q] = files0[q]

\* C6 as stated: the stages happen at most once each, in the order fetch,
\* compute, write; a run that ended has gone through the fetch and has either
\* completed the three stages with the whole report in the output
\* file, or failed with the output file neither created nor overwritten,
\* whichever stage failed.
C6_AllOrNothing ==
    /\ StagesInOrder
    /\ Ended => Len(stages) >= 1
    /\ pc = "done" => Completed
    /\ pc = "failed" => files = files0

\* C6, amended: as above when the fetch or the compute stage failed; when the
\* Writer failed, the output file is either as it was (makedirs or open
\* failed) or was truncated by open(path, "w") and holds only a beginning of
\* the report's text, its previous content lost.
C6_AllOrNothingBeforeWrite ==
    /\ StagesInOrder
    /\ Ended => Len(stages) >= 1
    /\ pc = "done" => Completed
    /\ (pc = "failed" /\ "write" \notin Range(stages)) => files = files0 /\ dirs = dirs0
    /\ (pc = "failed" /\ "write" \in Range(stages)) =>
        /\ OthersUntouched
        /\ \/ files = files0
           \/ /\ path \in DOMAIN files
              /\ ProperPrefix(files[path], Dump(data))

\* the Writer has failed after it truncated a file that a previous run left
C6_Witness ==
    /\ pc = "failed"
    /\ stages = AllStages
    /\ path \in DOMAIN files0
    /\ files[path] # files0[path]
    /\ files[path] # <<>>
    /\ ~Load(files[path]).ok

ReportKeys == {"source", "source_url", "total_foreign_born", "regions", "americas_total_share"}

RegionKeys == {"region", "count", "share", "americas"}

\* C9: after write_data_json(report, path) has returned, every ancestor
\* directory of path exists, the file exists at path, and reading it back
\* gives a document equal to the report: the same five top-level keys with the
\* same values, the regions array of the same length and order with the same
\* four fields in each entry; what the file held before is gone, and no other
\* file or directory was removed.
C9_WriteReadBack ==
    pc = "w_done" =>
        /\ Prefixes(dirname(path)) \subseteq dirs
        /\ dirs0 \subseteq dirs
        /\ OthersUntouched
        /\ path \in DOMAIN files
        /\ LET doc == Load(files[path])
           IN  /\ doc.ok
               /\ DOMAIN doc.val = ReportKeys
               /\ doc.val.source = data.source
               /\ doc.val.source_url = data.source_url
               /\ doc.val.total_foreign_born = data.total_foreign_born
               /\ doc.val.americas_total_share = data.americas_total_share
               /\ Len(doc.val.regions) = Len(data.regions)
               /\ \A i \in 1..Len(data.regions) :
                    /\ DOMAIN doc.val.regions[i] = RegionKeys
                    /\ \A f \in RegionKeys : doc.val.regions[i][f] = data.regions[i][f]

\* the Writer has returned for a nested path none of whose two parent
\* directories existed, with a report that holds a negative share
C9_Witness ==
    /\ pc = "w_done"
    /\ Len(path) >= 4
    /\ dirname(path) \notin dirs0
    /\ dirname(dirname(path)) \notin dirs0
    /\ data.regions[3].share < 0

-----------------------------------------------------------------------------
(* The partition that the regions of compute_regions form *)

\* the codes of VARIABLES that compute_regions never reads
UnconsumedCodes == VariableSet \ ConsumedCodes

\* the sum of the counts of the regions from position i on; of those with
\* americas true only, when onlyAmericas
RECURSIVE SumCounts(_, _, _)
SumCounts(rs, i, onlyAmericas) ==
    IF i > Len(rs) THEN 0
    ELSE (IF onlyAmericas => rs[i].americas THEN rs[i].count ELSE 0)
            + SumCounts(rs, i + 1, onlyAmericas)

\* the raw mapping with the value of every unconsumed code it holds replaced
VaryUnconsumed(rw, v) ==
    [c \in DOMAIN rw |-> IF c \in UnconsumedCodes THEN v[c] ELSE rw[c]]

\* C11: whenever compute_regions has returned, the nine region counts sum to
\* Caribbean + Central America + South America + Canada + Asia + Europe +
\* Africa of the raw input (Mexico, Western Asia and Northern Africa cancel),
\* the five americas counts sum to Caribbean + Central America + South America
\* + Canada, and compute_regions returns the same report on every raw input
\* that differs only in the values of B05006_130E, B05006_138E, B05006_176E.
C11_Partition ==
    data # NoValue =>
        /\ SumCounts(data.regions, 1, FALSE) =
              raw["B05006_140E"] + raw["B05006_154E"] + raw["B05006_164E"]
                + raw["B05006_177E"] + raw["B05006_047E"] + raw["B05006_002E"]
                + raw["B05006_095E"]
        /\ SumCounts(data.regions, 1, TRUE) =
              raw["B05006_140E"] + raw["B05006_154E"] + raw["B05006_164E"]
                + raw["B05006_177E"]
        /\ \A v \in [UnconsumedCodes -> {0, 7}] :
              compute_regions(VaryUnconsumed(raw, v)) = Return(data)

\* compute_regions has returned on an input in which the three cancelling
\* counts and an unconsumed code are all non-zero
C11_Witness ==
    /\ data # NoValue
    /\ raw["B05006_160E"] > 0
    /\ raw["B05006_079E"] > 0
    /\ raw["B05006_110E"] > 0
    /\ \E c \in UnconsumedCodes : c \in DOMAIN raw /\ raw[c] > 7
    /\ \E v \in [UnconsumedCodes -> {0, 7}] : VaryUnconsumed(raw, v) # raw

=============================================================================
